---- MODULE Spec2Model ----
(***************************************************************************)
(* Iterative Atlas Removal (IAR), src/segmentation/cardiac/cardiac.py.     *)
(*                                                                         *)
(* One call of IAR is modelled as a sequence of steps (phase), each the    *)
(* translation of a block of the function body; the recursive call of line *)
(* 401 is the step back to phase "call" with the filtered atlas set and    *)
(* the incremented iteration.                                              *)
(*                                                                         *)
(* Abstractions:                                                           *)
(*  - atlas identifiers are 1..n (strings in the code); an atlas set (a    *)
(*    Python dict, insertion ordered) is a sequence of <<id, record>>;     *)
(*  - the geometry (consensus, projection, re-gridding, Z-scores, curve    *)
(*    fit) is not computed: a grid is named by the atlas and resolution it *)
(*    was made from, and the Q-value of an atlas is any number in 0..MaxQ; *)
(*  - Q-values are a function of the pool and the configuration: a pool    *)
(*    that is scored a second time (second call of IAR) gets the Q-values  *)
(*    it got the first time (qMemo);                                       *)
(*  - the outlier limit is an exact number (A + B*sqrt(V))/D or NaN, NaN   *)
(*    being what numpy's mean/std/percentile give for an empty sample;     *)
(*  - combineLabels is not defined in the file: what it does for an empty  *)
(*    atlas set is unknown, it either raises or returns (emptyOutcome).    *)
(***************************************************************************)
EXTENDS Integers, Sequences, FiniteSets, TLC

VARIABLES
    cfg,             \* keyword arguments of the call (line 244)
    initial,         \* atlasSet argument of the outermost call (iteration 0)
    atlasSet,        \* atlasSet argument of the current call
    iteration,       \* iteration argument / local (lines 244, 395)
    phase,           \* position in the body of IAR
    logState,        \* "unopened", "open", "closed": the logFile handle
    log,             \* lines written to the log file
    remainingIdList, \* line 256
    resolution,      \* lines 259-266 (0: not yet set)
    consensusOf,     \* the atlases of each consensus computed in this call
    gValList,        \* line 274, 292
    QResults,        \* line 294, 356: sequence of <<testId, Q_value>>
    refLists,        \* gValListTest of each scored atlas (lines 298-299)
    bestResults,     \* line 361
    outlierLimit,    \* lines 364, 366
    keepIdList,      \* line 374, 389
    returned,        \* <<value returned to the caller>> or <<>>
    pools,           \* remainingIdList of every call since iteration 0
    run,             \* 1: first call by the user, 2: call on the result
    qMemo,           \* Q-values already given to a pool
    emptyOutcome,    \* what combineLabels did for an empty atlas set
    gValTestVals,    \* lines 298-299: gValListTest as cell values, grid by grid
    gValDisp,        \* gValStd (lines 307-311) or gValMAD (lines 317-325)
    zScoreValsArr,   \* lines 313, 327
    zStep            \* position in lines 305-327

\* the state of the Z-score computation of one atlas (lines 305-327)
zvars == <<gValTestVals, gValDisp, zScoreValsArr, zStep>>

vars == <<cfg, initial, atlasSet, iteration, phase, logState, log,
          remainingIdList, resolution, consensusOf, gValList, QResults,
          refLists, bestResults, outlierLimit, keepIdList, returned, pools,
          run, qMemo, emptyOutcome, zvars>>

----------------------------------------------------------------------------
(* Bounds and configuration values *)

MaxAtlases == 3
MaxQ == 1

DefaultMinBestAtlases == 10

\* the Z-score computation: reference grids, cells per grid, cell values
MaxRefGrids == 2
GridCells == 3
MaxGVal == 2

\* the outlier limit alone: atlases scored in the iteration
MaxScored == 6

\* line 317: 1.4826 as MadScaleNum / MadScaleDen
MadScaleNum == 14826
MadScaleDen == 10000

\* zScore.lower() and outlierMethod.lower(); "bogus" is any other name
ZScoreNames == {"mad", "std", "bogus"}
OutlierNames == {"iqr", "std", "bogus"}
MinBestChoices == {0, 1, DefaultMinBestAtlases}
\* N_factor as <<numerator, denominator>>: the default 1.5, and -2
NFactorChoices == {<<3, 2>>, <<-2, 1>>}

\* line 253
HeaderRow == [kind |-> "header", text |-> "Iteration,Atlases,Qvalue,Threshold"]

----------------------------------------------------------------------------
(* Sequences, dicts *)

Max(a, b) == IF a >= b THEN a ELSE b
Min(a, b) == IF a <= b THEN a ELSE b

Range(s) == {s[i] : i \in 1..Len(s)}

\* list(atlasSet.keys())
Keys(d) == [i \in 1..Len(d) |-> d[i][1]]

\* list(QResults.values())
Values(d) == [i \in 1..Len(d) |-> d[i][2]]

\* atlasSet[i]
Lookup(d, id) == (CHOOSE p \in Range(d) : p[1] = id)[2]

\* the atlas set handed to IAR: n atlases, each with its own record
InputAtlasSet(n) == [i \in 1..n |-> <<i, [DIR |-> i]>>]

\* gValListTest.pop() without the index: the last grid is dropped
PopLast(s, i) == SubSeq(s, 1, Len(s) - 1)

\* gValListTest = gValList[:]; gValListTest.pop(i)   (i counted from 1 here)
PopAt(s, i) == [j \in 1..(Len(s) - 1) |-> IF j < i THEN s[j] ELSE s[j + 1]]

\* s[:k]
Slice(s, k) ==
    IF k >= 0 THEN SubSeq(s, 1, Min(k, Len(s)))
    ELSE SubSeq(s, 1, Max(0, Len(s) + k))

RECURSIVE Insert(_, _)
Insert(s, x) ==
    IF s = <<>> THEN <<x>>
    ELSE IF x <= Head(s) THEN <<x>> \o s
    ELSE <<Head(s)>> \o Insert(Tail(s), x)

RECURSIVE Sort(_)
\* np.sort
Sort(s) == IF s = <<>> THEN <<>> ELSE Insert(Sort(Tail(s)), Head(s))

RECURSIVE Sum(_)
Sum(s) == IF s = <<>> THEN 0 ELSE Head(s) + Sum(Tail(s))

SumSq(s) == Sum([i \in 1..Len(s) |-> s[i] * s[i]])

----------------------------------------------------------------------------
(* The pure parts of IAR *)

\* lines 259-266
ResolutionFor(n) ==
    IF n < 12 THEN 3
    ELSE IF n < 7 THEN 6
    ELSE 1

\* line 290: the grid of one atlas, named by what it was made from
Grid(testId, res) == [atlas |-> testId, resolution |-> res]

\* line 361 without np.sort
BestResultsUnsorted(RL, minBestAtlases) ==
    Slice(RL, Max(minBestAtlases, Len(RL) - 3))

\* line 361
BestResults(RL, minBestAtlases) ==
    Slice(Sort(RL), Max(minBestAtlases, Len(RL) - 3))

\* 4 * np.percentile(s, 25*quarter) for a sorted non-empty s (linear interpolation)
Percentile4(s, quarter) ==
    LET pos4 == quarter * (Len(s) - 1)
        lo == pos4 \div 4
        r == pos4 % 4
    IN  IF r = 0 THEN 4 * s[lo + 1]
        ELSE (4 - r) * s[lo + 1] + r * s[lo + 2]

NaNLimit == [nan |-> TRUE, A |-> 0, B |-> 0, V |-> 0, D |-> 1]

\* lines 363-366; the limit is (A + B*sqrt(V))/D, or NaN for an empty sample
OutlierLimit(method, best, nf) ==
    IF Len(best) = 0 THEN NaNLimit
    ELSE IF method = "iqr" THEN
        LET p75 == Percentile4(best, 3)
            p25 == Percentile4(best, 1)
        IN  [nan |-> FALSE, A |-> nf[2] * p75 + nf[1] * (p75 - p25),
             B |-> 0, V |-> 0, D |-> 4 * nf[2]]
    ELSE
        LET n == Len(best)
            S == Sum(best)
        IN  [nan |-> FALSE, A |-> nf[2] * S, B |-> nf[1],
             V |-> n * SumSq(best) - S * S, D |-> nf[2] * n]

\* line 384: result <= outlierLimit (False whenever the limit is NaN)
Accept(result, limit) ==
    /\ ~limit.nan
    /\ LET X == result * limit.D - limit.A
           R == limit.B * limit.B * limit.V
       IN  IF limit.B >= 0 THEN X <= 0 \/ X * X <= R
           ELSE X <= 0 /\ X * X >= R

\* lines 374, 382-389
KeepIds(results, limit) ==
    Keys(SelectSeq(results, LAMBDA p : Accept(p[2], limit)))

\* line 396 with the record taken by position instead of by identifier
AtlasSetNewByPosition(d, keep) == [i \in 1..Len(keep) |-> <<keep[i], d[i][2]>>]

\* line 396
AtlasSetNew(d, keep) == [i \in 1..Len(keep) |-> <<keep[i], Lookup(d, keep[i])>>]

\* line 391 with <= for <
SomeRemovedOrEqual(keep, remaining) == Len(keep) <= Len(remaining)

\* line 391 off by one: a single removal does not count
SomeRemovedTwo(keep, remaining) == Len(keep) < Len(remaining) - 1

\* line 391
SomeRemoved(keep, remaining) == Len(keep) < Len(remaining)

\* line 246 with the log opened on every entry
AnyEntry(it) == it >= 0

\* line 246
FirstEntry(it) == it = 0

\* lines 305, 315
KnownZScore(name) == name \in {"std", "mad"}

\* lines 363-370 without the final else: any other name is taken as STD
AnyOutlierMethod(name) == name = name

\* lines 363, 365
KnownOutlierMethod(name) == name \in {"iqr", "std"}

\* lines 376-379; Q-values and limit stand for their '{:.4g}' renderings
LogRow(it, ids, results, limit) ==
    [kind |-> "row", iteration |-> it, atlases |-> ids,
     qvalues |-> Values(results), threshold |-> limit]

----------------------------------------------------------------------------
(* State machine *)

Configs ==
    [zScore : ZScoreNames, outlierMethod : OutlierNames,
     minBestAtlases : MinBestChoices, N_factor : NFactorChoices,
     singleStep : BOOLEAN]

Init ==
    /\ cfg \in Configs
    /\ \E n \in 1..MaxAtlases :
          /\ initial = InputAtlasSet(n)
          /\ atlasSet = InputAtlasSet(n)
    /\ iteration = 0
    /\ phase = "call"
    /\ logState = "unopened"
    /\ log = <<>>
    /\ remainingIdList = <<>>
    /\ resolution = 0
    /\ consensusOf = <<>>
    /\ gValList = <<>>
    /\ QResults = <<>>
    /\ refLists = <<>>
    /\ bestResults = <<>>
    /\ outlierLimit = NaNLimit
    /\ keepIdList = <<>>
    /\ returned = <<>>
    /\ pools = <<>>
    /\ run = 1
    /\ qMemo = {}
    /\ emptyOutcome = "unknown"
    /\ gValTestVals = <<>>
    /\ gValDisp = <<>>
    /\ zScoreValsArr = <<>>
    /\ zStep = "idle"

\* lines 246-266: entry of IAR up to the choice of the resolution
Enter ==
    /\ phase = "call"
    /\ IF FirstEntry(iteration)
       THEN /\ logState' = "open"
            /\ log' = <<HeaderRow>>
       ELSE UNCHANGED <<logState, log>>
    /\ remainingIdList' = Keys(atlasSet)
    /\ resolution' = ResolutionFor(Len(atlasSet))
    /\ initial' = IF iteration = 0 THEN atlasSet ELSE initial
    /\ pools' = IF iteration = 0 THEN <<Keys(atlasSet)>>
                ELSE Append(pools, Keys(atlasSet))
    /\ consensusOf' = <<>>
    /\ gValList' = <<>>
    /\ QResults' = <<>>
    /\ refLists' = <<>>
    /\ bestResults' = <<>>
    /\ outlierLimit' = NaNLimit
    /\ keepIdList' = <<>>
    /\ phase' = "consensus"
    /\ UNCHANGED zvars
    /\ UNCHANGED <<cfg, atlasSet, iteration, returned, run, qMemo,
                   emptyOutcome>>

\* lines 270-274: the consensus of the atlases of this call
Consensus ==
    /\ phase = "consensus"
    /\ remainingIdList = <<>> => emptyOutcome \in {"unknown", "returns"}
    /\ emptyOutcome' = IF remainingIdList = <<>> THEN "returns" ELSE emptyOutcome
    /\ consensusOf' = Append(consensusOf, Range(Keys(atlasSet)))
    /\ gValList' = <<>>
    /\ phase' = IF remainingIdList = <<>> THEN "threshold" ELSE "project"
    /\ UNCHANGED <<zvars, bestResults>>
    /\ UNCHANGED <<cfg, initial, atlasSet, iteration, logState, log,
                   remainingIdList, resolution, QResults, refLists,
                   outlierLimit, keepIdList, returned, pools, run, qMemo>>

\* line 270 with an empty atlas set, when combineLabels raises
ConsensusRaises ==
    /\ phase = "consensus"
    /\ remainingIdList = <<>>
    /\ emptyOutcome \in {"unknown", "raises"}
    /\ emptyOutcome' = "raises"
    /\ phase' = "raised"
    /\ UNCHANGED <<zvars, bestResults>>
    /\ UNCHANGED <<cfg, initial, atlasSet, iteration, logState, log,
                   remainingIdList, resolution, consensusOf, gValList,
                   QResults, refLists, outlierLimit, keepIdList, returned,
                   pools, run, qMemo>>

\* lines 277-292: one turn of the projection loop
Project ==
    /\ phase = "project"
    /\ LET i == Len(gValList) + 1
           testId == remainingIdList[i]
       IN  /\ gValList' = Append(gValList, Grid(testId, resolution))
           /\ phase' = IF i = Len(remainingIdList) THEN "score" ELSE "project"
    /\ UNCHANGED <<zvars, bestResults>>
    /\ UNCHANGED <<cfg, initial, atlasSet, iteration, logState, log,
                   remainingIdList, resolution, consensusOf, QResults,
                   refLists, outlierLimit, keepIdList, returned, pools, run,
                   qMemo, emptyOutcome>>

\* the Q-values a pool may get at position i: the ones it got before, if any
QChoices(i) ==
    IF \E m \in qMemo : m[1] = remainingIdList
    THEN {(CHOOSE m \in qMemo : m[1] = remainingIdList)[2][i][2]}
    ELSE 0..MaxQ

\* lines 296-356: one turn of the scoring loop
Score ==
    /\ phase = "score"
    /\ KnownZScore(cfg.zScore)
    /\ LET i == Len(QResults) + 1
           testId == remainingIdList[i]
           gValListTest == PopAt(gValList, i)
       IN  \E Q_value \in QChoices(i) :
              LET results == Append(QResults, <<testId, Q_value>>)
                  last == i = Len(remainingIdList)
              IN  /\ QResults' = results
                  /\ refLists' = Append(refLists, gValListTest)
                  /\ phase' = IF last THEN "threshold" ELSE "score"
                  /\ qMemo' = IF last
                              THEN qMemo \cup {<<remainingIdList, results>>}
                              ELSE qMemo
    /\ UNCHANGED <<zvars, bestResults>>
    /\ UNCHANGED <<cfg, initial, atlasSet, iteration, logState, log,
                   remainingIdList, resolution, consensusOf, gValList,
                   outlierLimit, keepIdList, returned, pools, run,
                   emptyOutcome>>

\* lines 329-332: sys.exit() in the first turn of the scoring loop
ZScoreError ==
    /\ phase = "score"
    /\ ~KnownZScore(cfg.zScore)
    /\ phase' = "exited"
    /\ UNCHANGED <<zvars, bestResults>>
    /\ UNCHANGED <<cfg, initial, atlasSet, iteration, logState, log,
                   remainingIdList, resolution, consensusOf, gValList,
                   QResults, refLists, outlierLimit, keepIdList, returned,
                   pools, run, qMemo, emptyOutcome>>

\* lines 360-366, 374
Threshold ==
    /\ phase = "threshold"
    /\ KnownOutlierMethod(cfg.outlierMethod)
    /\ LET RL == Values(QResults)
           best == BestResults(RL, cfg.minBestAtlases)
       IN  /\ bestResults' = best
           /\ outlierLimit' = OutlierLimit(cfg.outlierMethod, best, cfg.N_factor)
    /\ keepIdList' = <<>>
    /\ phase' = "log"
    /\ UNCHANGED zvars
    /\ UNCHANGED <<cfg, initial, atlasSet, iteration, logState, log,
                   remainingIdList, resolution, consensusOf, gValList,
                   QResults, refLists, returned, pools, run, qMemo,
                   emptyOutcome>>

\* lines 367-370: sys.exit()
OutlierMethodError ==
    /\ phase = "threshold"
    /\ ~KnownOutlierMethod(cfg.outlierMethod)
    /\ phase' = "exited"
    /\ UNCHANGED <<zvars, bestResults>>
    /\ UNCHANGED <<cfg, initial, atlasSet, iteration, logState, log,
                   remainingIdList, resolution, consensusOf, gValList,
                   QResults, refLists, outlierLimit, keepIdList, returned,
                   pools, run, qMemo, emptyOutcome>>

\* lines 376-380
WriteLog ==
    /\ phase = "log"
    /\ log' = Append(log, LogRow(iteration, remainingIdList, QResults, outlierLimit))
    /\ phase' = "filter"
    /\ UNCHANGED <<zvars, bestResults>>
    /\ UNCHANGED <<cfg, initial, atlasSet, iteration, logState,
                   remainingIdList, resolution, consensusOf, gValList,
                   QResults, refLists, outlierLimit, keepIdList, returned,
                   pools, run, qMemo, emptyOutcome>>

\* lines 382-389
Filter ==
    /\ phase = "filter"
    /\ keepIdList' = KeepIds(QResults, outlierLimit)
    /\ phase' = "decide"
    /\ UNCHANGED <<zvars, bestResults>>
    /\ UNCHANGED <<cfg, initial, atlasSet, iteration, logState, log,
                   remainingIdList, resolution, consensusOf, gValList,
                   QResults, refLists, outlierLimit, returned, pools, run,
                   qMemo, emptyOutcome>>

\* lines 391-401, not singleStep: the recursive call
Recurse ==
    /\ phase = "decide"
    /\ SomeRemoved(keepIdList, remainingIdList)
    /\ ~cfg.singleStep
    /\ iteration' = iteration + 1
    /\ atlasSet' = AtlasSetNew(atlasSet, keepIdList)
    /\ phase' = "call"
    /\ UNCHANGED <<zvars, bestResults>>
    /\ UNCHANGED <<cfg, initial, logState, log, remainingIdList, resolution,
                   consensusOf, gValList, QResults, refLists, outlierLimit,
                   keepIdList, returned, pools, run, qMemo, emptyOutcome>>

\* lines 391-399, singleStep: return atlasSetNew
ReturnSingleStep ==
    /\ phase = "decide"
    /\ SomeRemoved(keepIdList, remainingIdList)
    /\ cfg.singleStep
    /\ iteration' = iteration + 1
    /\ returned' = <<AtlasSetNew(atlasSet, keepIdList)>>
    /\ phase' = "returned"
    /\ UNCHANGED <<zvars, bestResults>>
    /\ UNCHANGED <<cfg, initial, atlasSet, logState, log, remainingIdList,
                   resolution, consensusOf, gValList, QResults, refLists,
                   outlierLimit, keepIdList, pools, run, qMemo, emptyOutcome>>

\* lines 403-407: end point reached
ReturnConverged ==
    /\ phase = "decide"
    /\ ~SomeRemoved(keepIdList, remainingIdList)
    /\ logState' = "closed"
    /\ returned' = <<atlasSet>>
    /\ phase' = "returned"
    /\ UNCHANGED <<zvars, bestResults>>
    /\ UNCHANGED <<cfg, initial, atlasSet, iteration, log, remainingIdList,
                   resolution, consensusOf, gValList, QResults, refLists,
                   outlierLimit, keepIdList, pools, run, qMemo, emptyOutcome>>

\* the caller runs IAR again on the atlas set a converged run returned, with
\* the same keyword arguments (iteration=0, the same log file name)
ReRun ==
    /\ phase = "returned"
    /\ run = 1
    /\ ~cfg.singleStep
    /\ run' = 2
    /\ atlasSet' = returned[1]
    /\ iteration' = 0
    /\ returned' = <<>>
    /\ phase' = "call"
    /\ UNCHANGED <<zvars, bestResults>>
    /\ UNCHANGED <<cfg, initial, logState, log, remainingIdList, resolution,
                   consensusOf, gValList, QResults, refLists, outlierLimit,
                   keepIdList, pools, qMemo, emptyOutcome>>

Next ==
    \/ Enter
    \/ Consensus
    \/ ConsensusRaises
    \/ Project
    \/ Score
    \/ ZScoreError
    \/ Threshold
    \/ OutlierMethodError
    \/ WriteLog
    \/ Filter
    \/ Recurse
    \/ ReturnSingleStep
    \/ ReturnConverged
    \/ ReRun

Spec == Init /\ [][Next]_vars

----------------------------------------------------------------------------
(* The Z-scores of one atlas against its reference set (lines 305-327).   *)
(* A grid is its GridCells cell values. A dispersion is kept exact as     *)
(* (sqrt(roots[1]) + ... + sqrt(roots[k]) + num) / den with den > 0.      *)

Abs(x) == IF x >= 0 THEN x ELSE 0 - x

GridVals == [1..GridCells -> 0..MaxGVal]

\* the values of cell c across the grids of the reference set (axis=0)
Column(grids, c) == [k \in 1..Len(grids) |-> grids[k][c]]

\* 2 * np.median(s), s not empty
Median2(s) ==
    LET t == Sort(s)
        n == Len(t)
    IN  IF n % 2 = 1 THEN 2 * t[(n + 1) \div 2]
        ELSE t[n \div 2] + t[n \div 2 + 1]

\* line 225: 4 * medianAbsoluteDeviation(s)
MAD4(s) ==
    LET med2 == Median2(s)
    IN  Median2([k \in 1..Len(s) |-> Abs(2 * s[k] - med2)])

\* line 307: np.std of one cell = sqrt(m*sum(x^2) - sum(x)^2) / m
StdCell(col) ==
    [roots |-> <<Len(col) * SumSq(col) - Sum(col) * Sum(col)>>,
     num |-> 0, den |-> Len(col)]

\* line 317: 1.4826 * MAD of one cell
MadCell(col) ==
    [roots |-> <<>>, num |-> MadScaleNum * MAD4(col), den |-> 4 * MadScaleDen]

\* gValStd == 0, gValMAD == 0 (lines 309, 311, 323, 325)
IsZero(d) == d.num = 0 /\ \A i \in 1..Len(d.roots) : d.roots[i] = 0

\* line 311: gValStd.mean(), the mean of every cell of the grid
StdFill(disp) ==
    [roots |-> [c \in 1..Len(disp) |-> disp[c].roots[1]],
     num |-> 0, den |-> disp[1].den * Len(disp)]

\* line 325: np.median(gValMAD), the median of every cell of the grid
MadFill(disp) ==
    [roots |-> <<>>,
     num |-> Median2([c \in 1..Len(disp) |-> disp[c].num]),
     den |-> 2 * disp[1].den]

\* lines 307, 317
DispersionGrid(method, grids) ==
    [c \in 1..GridCells |->
        IF method = "std" THEN StdCell(Column(grids, c))
        ELSE MadCell(Column(grids, c))]

\* lines 309-311, 323-325
ZeroGuard(method, disp) ==
    IF \E c \in 1..Len(disp) : IsZero(disp[c])
    THEN LET fill == IF method = "std" THEN StdFill(disp) ELSE MadFill(disp)
         IN  [c \in 1..Len(disp) |-> IF IsZero(disp[c]) THEN fill ELSE disp[c]]
    ELSE disp

\* lines 313, 327: numpy divides by zero without raising, giving inf or nan
ZScoreCell(d) == [divisor |-> d, finite |-> ~IsZero(d)]

\* IAR is scoring one atlas of a pool with recognized names; its reference
\* set is any list of 1..MaxRefGrids grids
InitZ ==
    /\ cfg \in {c \in Configs : /\ KnownZScore(c.zScore)
                               /\ c.outlierMethod = "iqr"
                               /\ c.minBestAtlases = DefaultMinBestAtlases
                               /\ c.N_factor = <<3, 2>>
                               /\ ~c.singleStep}
    /\ gValTestVals \in UNION {[1..m -> GridVals] : m \in 1..MaxRefGrids}
    /\ initial = InputAtlasSet(Len(gValTestVals) + 1)
    /\ atlasSet = InputAtlasSet(Len(gValTestVals) + 1)
    /\ iteration = 0
    /\ phase = "zscore"
    /\ logState = "open"
    /\ log = <<HeaderRow>>
    /\ remainingIdList = Keys(atlasSet)
    /\ resolution = ResolutionFor(Len(atlasSet))
    /\ consensusOf = <<Range(Keys(atlasSet))>>
    /\ gValList = <<>>
    /\ QResults = <<>>
    /\ refLists = <<>>
    /\ bestResults = <<>>
    /\ outlierLimit = NaNLimit
    /\ keepIdList = <<>>
    /\ returned = <<>>
    /\ pools = <<Keys(atlasSet)>>
    /\ run = 1
    /\ qMemo = {}
    /\ emptyOutcome = "unknown"
    /\ gValDisp = <<>>
    /\ zScoreValsArr = <<>>
    /\ zStep = "start"

mainvars == <<cfg, initial, atlasSet, iteration, phase, logState, log,
              remainingIdList, resolution, consensusOf, gValList, QResults,
              refLists, bestResults, outlierLimit, keepIdList, returned,
              pools, run, qMemo, emptyOutcome>>

\* lines 306-307, 316-317
Dispersion ==
    /\ zStep = "start"
    /\ gValDisp' = DispersionGrid(cfg.zScore, gValTestVals)
    /\ zStep' = "dispersion"
    /\ UNCHANGED <<mainvars, gValTestVals, zScoreValsArr>>

\* lines 309-311, 323-325
SubstituteZeros ==
    /\ zStep = "dispersion"
    /\ gValDisp' = ZeroGuard(cfg.zScore, gValDisp)
    /\ zStep' = "guarded"
    /\ UNCHANGED <<mainvars, gValTestVals, zScoreValsArr>>

\* lines 313, 327
ZScoreCells ==
    /\ zStep = "guarded"
    /\ zScoreValsArr' = [c \in 1..Len(gValDisp) |-> ZScoreCell(gValDisp[c])]
    /\ zStep' = "zscored"
    /\ UNCHANGED <<mainvars, gValTestVals, gValDisp>>

NextZ ==
    \/ Dispersion
    \/ SubstituteZeros
    \/ ZScoreCells

SpecZ == InitZ /\ [][NextZ]_vars

----------------------------------------------------------------------------
(* The outlier limit and the accept loop alone (lines 358-389), for pools *)
(* of up to MaxScored atlases: IAR is at line 358 of iteration 0 with any *)
(* Q-values in QResults.                                                  *)

ScoredPool(n) == [i \in 1..n |-> i]

InitT ==
    /\ cfg \in {c \in Configs : /\ KnownZScore(c.zScore)
                               /\ KnownOutlierMethod(c.outlierMethod)
                               /\ ~c.singleStep}
    /\ \E n \in 1..MaxScored :
          /\ initial = InputAtlasSet(n)
          /\ atlasSet = InputAtlasSet(n)
          /\ remainingIdList = ScoredPool(n)
          /\ pools = <<ScoredPool(n)>>
          /\ consensusOf = <<Range(ScoredPool(n))>>
          /\ resolution = ResolutionFor(n)
          /\ gValList = [i \in 1..n |-> Grid(i, ResolutionFor(n))]
          /\ refLists = [i \in 1..n |->
                            PopAt([j \in 1..n |-> Grid(j, ResolutionFor(n))], i)]
          /\ \E q \in [1..n -> 0..MaxQ] :
                QResults = [i \in 1..n |-> <<i, q[i]>>]
    /\ qMemo = {<<remainingIdList, QResults>>}
    /\ iteration = 0
    /\ phase = "threshold"
    /\ logState = "open"
    /\ log = <<HeaderRow>>
    /\ bestResults = <<>>
    /\ outlierLimit = NaNLimit
    /\ keepIdList = <<>>
    /\ returned = <<>>
    /\ run = 1
    /\ emptyOutcome = "unknown"
    /\ gValTestVals = <<>>
    /\ gValDisp = <<>>
    /\ zScoreValsArr = <<>>
    /\ zStep = "idle"

NextT ==
    \/ Threshold
    \/ WriteLog
    \/ Filter

SpecT == InitT /\ [][NextT]_vars

----------------------------------------------------------------------------
(* Properties *)

\* a zScore or outlierMethod name that is none of MAD, STD / IQR, STD
BadZScore == cfg.zScore \notin {"mad", "std"}
BadOutlierMethod == cfg.outlierMethod \notin {"iqr", "std"}
BadConfig == BadZScore \/ BadOutlierMethod

\* result > limit as numbers (False when the limit is NaN)
Above(result, limit) ==
    /\ ~limit.nan
    /\ LET X == result * limit.D - limit.A
           R == limit.B * limit.B * limit.V
       IN  IF limit.B >= 0 THEN X > 0 /\ X * X > R
           ELSE X > 0 \/ X * X < R

\* number of iteration rows in the log
Rows == IF log = <<>> THEN 0 ELSE Len(log) - 1

\* C1: a run on N >= 1 atlases with recognized names enters IAR at most N
\* times (iteration 0 counted), whatever the Q-values.
C1_AtMostNEntries ==
    (run = 1 /\ ~BadConfig) => Len(pools) <= Len(initial)

\* C2: the pool sizes of successive entries are strictly decreasing; IAR
\* re-enters itself only after an iteration that removed an atlas, and an
\* iteration that removed none returns.
C2_Step ==
    /\ (phase = "decide" /\ phase' = "call") =>
          /\ Len(keepIdList) < Len(remainingIdList)
          /\ Len(atlasSet') < Len(atlasSet)
    /\ (phase = "decide" /\ Len(keepIdList) = Len(remainingIdList)) =>
          phase' = "returned"
    /\ \A k \in 1..(Len(pools') - 1) : Len(pools'[k + 1]) < Len(pools'[k])

C2_StrictlyDecreasing == [][C2_Step]_vars

C2_Witness == phase = "returned" /\ Len(pools) = 3 /\ Len(pools[3]) = 1

\* C3: every pool is a subset of the pool before it, and the atlas set of a
\* call, like the one returned, holds only entries (identifier with its
\* record) of the input.
C3_NeverReinstated ==
    /\ \A k \in 1..(Len(pools) - 1) : Range(pools[k + 1]) \subseteq Range(pools[k])
    /\ Range(atlasSet) \subseteq Range(initial)
    /\ returned # <<>> => Range(returned[1]) \subseteq Range(initial)
    /\ returned # <<>> =>
          \A i, j \in 1..Len(returned[1]) :
              returned[1][i][1] = returned[1][j][1] => i = j

C3_Witness ==
    /\ run = 1
    /\ returned # <<>>
    /\ Len(returned[1]) = 2
    /\ Len(initial) = 3
    /\ returned[1][1][1] = 2

\* C4: IAR called again (iteration 0, same configuration, same Q-values for
\* the same pool) on the atlas set a converged run returned removes no atlas
\* and returns that atlas set.
C4_Idempotent ==
    (run = 2 /\ phase # "call") =>
        /\ phase \notin {"exited", "raised"}
        /\ pools = <<Keys(initial)>>
        /\ phase = "decide" => keepIdList = remainingIdList
        /\ phase = "returned" => returned = <<initial>>

C4_Witness ==
    /\ run = 2
    /\ phase = "returned"
    /\ Len(initial) >= 1
    /\ Cardinality(qMemo) >= 2

\* C5: when a run returns an atlas set to its caller the log file is
\* closed, on the converged return and on the single-step return.
C5_ClosedOnReturn == phase = "returned" => logState = "closed"

\* C6: when a run aborts on an unrecognized zScore or outlierMethod name the
\* log file has been closed.
C6_ClosedOnFatal == phase = "exited" => logState = "closed"

\* C7: with an unrecognized zScore or outlierMethod name the run ends in
\* the fatal exit in iteration 0 (it is in iteration 0 and cannot stop
\* anywhere else): nothing is returned, IAR is not re-entered and the log
\* holds the header and no iteration row.
C7_FatalConfigError ==
    BadConfig =>
        /\ phase \in {"call", "consensus", "project", "score", "threshold", "exited"}
        /\ BadZScore => QResults = <<>>
        /\ returned = <<>>
        /\ run = 1
        /\ iteration = 0
        /\ Len(pools) <= 1
        /\ logState # "unopened" => log = <<HeaderRow>>
        /\ phase # "exited" => ENABLED Next

C7_Witness ==
    /\ phase = "exited"
    /\ cfg.zScore = "mad"
    /\ cfg.outlierMethod = "bogus"
    /\ Len(QResults) = Len(initial)
    /\ log = <<HeaderRow>>

\* C8: the resolution of an iteration is 6 for fewer than 7 atlases, 3 for
\* 7 to 11 atlases and 1 for 12 atlases or more.
C8_ThreeTiers ==
    resolution # 0 =>
        resolution = (IF Len(remainingIdList) < 7 THEN 6
                      ELSE IF Len(remainingIdList) < 12 THEN 3
                      ELSE 1)

\* C9: the log is the header, written once and first, followed by one row
\* per completed iteration, numbered 0, 1, 2, ... in order; row k lists the
\* pool at the start of iteration k and is there before iteration k+1 begins.
C9_LogShape ==
    /\ logState = "unopened" => log = <<>>
    /\ logState # "unopened" =>
          /\ Len(log) >= 1
          /\ log[1] = HeaderRow
          /\ \A k \in 2..Len(log) :
                /\ log[k].kind = "row"
                /\ log[k].iteration = k - 2
                /\ k - 1 <= Len(pools)
                /\ log[k].atlases = pools[k - 1]
          /\ Rows = IF phase \in {"call", "filter", "decide", "returned"}
                    THEN Len(pools)
                    ELSE Len(pools) - 1

C9_Witness ==
    /\ phase = "call"
    /\ iteration = 2
    /\ Len(log) = 3
    /\ Len(log[2].atlases) > Len(log[3].atlases)

\* C10: with singleStep, IAR evaluates iteration 0 only, writes one
\* iteration row, never re-enters itself and returns the input pool minus
\* exactly the atlases whose Q-value is above the threshold of iteration 0.
C10_SingleStepRound ==
    cfg.singleStep =>
        /\ Len(pools) <= 1
        /\ Rows <= 1
        /\ phase = "returned" =>
              /\ Rows = 1
              /\ returned =
                    <<SelectSeq(initial,
                                LAMBDA e : \E p \in Range(QResults) :
                                    p[1] = e[1] /\ ~Above(p[2], outlierLimit))>>

\* C11: after the zero substitution no cell of the dispersion grid is zero,
\* so every cell-wise Z-score is finite, whatever the reference set (all of
\* its grids identical, or most cells of zero dispersion, included).
C11_ZeroGuard ==
    /\ zStep \in {"guarded", "zscored"} =>
          \A c \in 1..Len(gValDisp) : ~IsZero(gValDisp[c])
    /\ zStep = "zscored" =>
          \A c \in 1..Len(zScoreValsArr) : zScoreValsArr[c].finite

\* number of entries of s equal to v, and below v
CountEq(s, v) == Cardinality({i \in 1..Len(s) : s[i] = v})
CountBelow(s, v) == Cardinality({i \in 1..Len(s) : s[i] < v})

\* C12: with N scored atlases the limit is computed from exactly the
\* min(N, max(minBestAtlases, N-3)) lowest Q-values: at most 3 Q-values are
\* left out of the sample, and none when N <= minBestAtlases.
C12_ThresholdSample ==
    phase \in {"log", "filter", "decide"} =>
        LET RL == Values(QResults)
            N == Len(RL)
            k == Min(N, Max(cfg.minBestAtlases, N - 3))
        IN  /\ Len(bestResults) = k
            /\ \A v \in 0..MaxQ :
                  CountEq(bestResults, v) =
                      Min(CountEq(RL, v), Max(0, k - CountBelow(RL, v)))
            /\ outlierLimit =
                  OutlierLimit(cfg.outlierMethod, bestResults, cfg.N_factor)
            /\ N - Len(bestResults) <= 3
            /\ N <= cfg.minBestAtlases => Len(bestResults) = N

C12_Witness ==
    /\ phase = "decide"
    /\ Len(QResults) = 6
    /\ cfg.minBestAtlases = 1
    /\ Len(bestResults) = 3
    /\ QResults[1][2] = 1
    /\ QResults[2][2] = 1
    /\ QResults[3][2] = 1
    /\ QResults[4][2] = 0
    /\ bestResults = <<0, 0, 0>>

\* C13: an atlas is removed in an iteration if and only if its Q-value is
\* strictly above the limit of that iteration (equal is kept), so every atlas
\* of the pool a converged run returns had a Q-value at or below the limit of
\* the final iteration.
C13_RemovedIffAbove ==
    /\ phase = "decide" =>
          \A i \in 1..Len(QResults) :
              (QResults[i][1] \notin Range(keepIdList))
                  <=> Above(QResults[i][2], outlierLimit)
    /\ (phase = "returned" /\ logState = "closed") =>
          \A i \in 1..Len(QResults) :
              ~Above(QResults[i][2], outlierLimit)

\* C14: in an iteration the consensus is computed once, from the atlases
\* remaining at its start, before any projection; every grid is made before
\* the first Q-value; the Q-value of an atlas is computed against the grids
\* of exactly the other remaining atlases.
C14_StepOrder ==
    /\ phase \in {"project", "score", "threshold", "log", "filter", "decide"} =>
          /\ remainingIdList = Keys(atlasSet)
          /\ remainingIdList = pools[Len(pools)]
          /\ consensusOf = <<Range(remainingIdList)>>
    /\ Len(consensusOf) <= 1
    /\ gValList # <<>> => Len(consensusOf) = 1
    /\ Len(gValList) <= Len(remainingIdList)
    /\ \A i \in 1..Len(gValList) :
          gValList[i] = [atlas |-> remainingIdList[i], resolution |-> resolution]
    /\ QResults # <<>> => Len(gValList) = Len(remainingIdList)
    /\ Len(refLists) = Len(QResults)
    /\ \A i \in 1..Len(QResults) :
          /\ QResults[i][1] = remainingIdList[i]
          /\ Len(refLists[i]) = Len(remainingIdList) - 1
          /\ Range(refLists[i]) \subseteq Range(gValList)
          /\ {g.atlas : g \in Range(refLists[i])} =
                Range(remainingIdList) \ {QResults[i][1]}

C14_Witness ==
    /\ phase = "threshold"
    /\ iteration = 1
    /\ remainingIdList = <<1, 3>>
    /\ Len(refLists) = 2
    /\ refLists[1] = <<gValList[2]>>

\* C15: every iteration keeps at least one atlas (the one of lowest Q-value),
\* whatever the Q-values, minBestAtlases and N_factor: IAR never re-enters
\* itself with an empty pool and never returns one.
C15_PoolNeverEmpty ==
    /\ (phase = "decide" /\ remainingIdList # <<>>) =>
          /\ keepIdList # <<>>
          /\ \E i \in 1..Len(QResults) :
                /\ QResults[i][1] \in Range(keepIdList)
                /\ \A j \in 1..Len(QResults) : QResults[i][2] <= QResults[j][2]
    /\ phase = "call" => atlasSet # <<>>
    /\ returned # <<>> => returned[1] # <<>>

====
